---------------------------- MODULE Spec2Model ----------------------------
(***************************************************************************)
(* Semaphores, locks with nested priority donation and Mesa-style          *)
(* condition variables of src/threads/synch.c, on a single CPU.            *)
(*                                                                         *)
(* One action is one uninterruptible piece of a function of synch.c: a     *)
(* region bracketed by intr_disable()/intr_set_level(), or one statement   *)
(* of the code that runs with interrupts enabled (lock_acquire,            *)
(* donate_nested, update_thread_priority, lock_release, cond_wait and      *)
(* cond_signal do not disable interrupts themselves).  Between two actions *)
(* the timer interrupt may preempt the running thread (Tick) and an        *)
(* interrupt handler may unblock a sleeping thread (Wake).                 *)
(***************************************************************************)
EXTENDS Integers, Sequences, FiniteSets, TLC

\* ------------------------------------------------------------------ bounds
\* Size of the thread table; each workload below says which threads it runs.
NumThreads == 4
\* Priorities are 1..MaxPri.
MaxPri == 3
\* sema_up calls on the free-standing semaphore.
MaxUps == 2
\* Largest initial value of the free-standing semaphore.
MaxInit == 1
\* Longest chain of lock owners, each waiting for the lock of the next.
MaxChain == 9

\* ------------------------------------------------------- program constants
\* donate_nested stops when num_donated_threads reaches this depth.
MaxDonationDepth == 8
\* original_priority value meaning "no donation active"; also what
\* max_waiter_priority returns for an empty wait list.
NoPriority == -1
\* sema_self_test and sema_test_helper loop this many times.
Iterations == 10

Threads == 1..NumThreads
Locks == {1, 2}
\* NULL pointer to a thread or a lock.
NULL == 0

\* The wait chain: owner i holds lock i; the donor is one more thread.
ChainLocks == 1..MaxChain
Donor == MaxChain + 1
ChainThreads == 1..Donor

\* The semaphores of the system: the one embedded in each lock, the array
\* sema[0], sema[1] of sema_self_test, one more free-standing semaphore, and
\* the private one inside the semaphore_elem of each cond_wait call (a thread
\* is in at most one cond_wait at a time).  There is one condition variable.
LockSema(l) == <<"lock", l>>
PlainSema(i) == <<"sema", i>>
WaiterSema(t) == <<"waiter", t>>
NoSema == <<"null", 0>>
PingPongSemas == {PlainSema(0), PlainSema(1)}
TheSema == PlainSema(2)
AllSemas == {LockSema(l) : l \in Locks} \cup {TheSema} \cup PingPongSemas
              \cup {WaiterSema(t) : t \in Threads}

VARIABLES
  priority,           \* thread -> current (effective) priority
  original_priority,  \* thread -> priority before donation, or NoPriority
  status,             \* thread -> "RUNNING" | "READY" | "BLOCKED"
  wait_semaphore,     \* thread -> semaphore whose wait list holds it, or NoSema
  wait_lock,          \* thread -> lock it last set out to acquire, or NULL
  locks,              \* thread -> list of the locks it holds
  ready_list,         \* the scheduler's list of READY threads
  value,              \* semaphore -> counter
  waiters,            \* semaphore -> list of blocked threads
  holder,             \* lock -> owning thread, or NULL
  cond_waiters,       \* the condition's list of semaphore_elem
  pc,                 \* thread -> where it stands in the operation it runs
  local,              \* thread -> arguments and local variables of that operation
  intr_off,           \* thread -> it stopped inside an interrupt-disabled region
  panicked,           \* an ASSERT failed or the kernel faulted
  permits,            \* history: initial value plus sema_up calls, per semaphore
  downs,              \* history: completed downs, per semaphore
  arrivals,           \* history: threads inside sema_down, in order of call
  ops,                \* history: how far each thread is in its script
  workload            \* which program the threads run (fixed by the initial state)

vars == <<priority, original_priority, status, wait_semaphore, wait_lock, locks,
          ready_list, value, waiters, holder, cond_waiters, pc, local, intr_off,
          panicked, permits, downs, arrivals, ops, workload>>

threadVars == <<priority, original_priority, wait_semaphore, wait_lock, locks>>
schedVars == <<status, ready_list>>
semaVars == <<value, waiters>>
histVars == <<permits, downs, arrivals, workload>>
restVars == <<histVars, ops>>

\* lock, sema: arguments; a, l, n, h: donate_nested's a, l, num_donated_threads
\* and lock_holder; np: new_priority; in_wait, in_bcast: the call came from
\* cond_wait, cond_broadcast; bset: the threads waiting when cond_broadcast began;
\* wp: cond_wait's waiter.priority.
NoLocal == [lock |-> NULL, sema |-> NoSema, a |-> NULL, l |-> NULL, n |-> 0,
            h |-> NULL, np |-> NoPriority, in_wait |-> FALSE, in_bcast |-> FALSE,
            bset |-> {}, wp |-> NoPriority]

\* The history variables follow the free-standing semaphores only.
Tracked(s) == s[1] = "sema"

\* ------------------------------------------------------------ list helpers
RECURSIVE SeqRemove(_, _)
SeqRemove(s, x) ==
  IF s = <<>> THEN <<>>
  ELSE IF Head(s) = x THEN Tail(s)
  ELSE <<Head(s)>> \o SeqRemove(Tail(s), x)

InSeq(s, x) == \E i \in 1..Len(s) : s[i] = x

\* priority_higher (a, b): thread a has a strictly higher priority than b.
priority_higher(a, b, pri) == pri[a] > pri[b]

\* list_insert_ordered (list, t, priority_higher): in front of the first element
\* that t is higher than, so behind every element of the same priority.
RECURSIVE list_insert_ordered(_, _, _)
list_insert_ordered(list, t, pri) ==
  IF list = <<>> THEN <<t>>
  ELSE IF priority_higher(t, Head(list), pri) THEN <<t>> \o list
  ELSE <<Head(list)>> \o list_insert_ordered(Tail(list), t, pri)

\* ------------------------------------------------- scheduler (thread.c)
\* A scheduler state is the pair of the status map and the ready list.
Sched == [st |-> status, rl |-> ready_list]

\* schedule (): the front of the ready list runs next; with an empty list
\* the idle thread runs (no thread of the model is RUNNING).
schedule(sch) ==
  IF sch.rl = <<>> THEN sch
  ELSE [st |-> [sch.st EXCEPT ![Head(sch.rl)] = "RUNNING"], rl |-> Tail(sch.rl)]

thread_block(sch, t) ==
  schedule([st |-> [sch.st EXCEPT ![t] = "BLOCKED"], rl |-> sch.rl])

thread_unblock(sch, t, pri) ==
  [st |-> [sch.st EXCEPT ![t] = "READY"], rl |-> list_insert_ordered(sch.rl, t, pri)]

thread_yield(sch, t, pri) ==
  schedule([st |-> [sch.st EXCEPT ![t] = "READY"],
            rl |-> list_insert_ordered(sch.rl, t, pri)])

\* priority_yield (): yield when the front of the ready list outranks the caller.
priority_yield(sch, t, pri) ==
  IF sch.rl # <<>> /\ pri[Head(sch.rl)] > pri[t] THEN thread_yield(sch, t, pri)
  ELSE sch

Running(t) == status[t] = "RUNNING" /\ ~panicked

\* --------------------------------------------------------------- workloads
\* A workload is the code the threads run on top of synch.c.  In a free
\* workload every thread calls any operation of a set, any number of times;
\* in a scripted one each thread calls the operations of its script in order.
LockOps ==
  {<<op, l>> : op \in {"lock_acquire", "lock_try_acquire", "lock_release"}, l \in Locks}
    \cup {<<"sleep", 0>>}
SemaOps ==
  {<<op, TheSema[2]>> : op \in {"sema_down", "sema_try_down", "sema_up"}}
    \cup {<<"sleep", 0>>}

\* A monitor: one lock and the condition variable it protects.
MonitorOps ==
  {<<op, 1>> : op \in {"lock_acquire", "lock_release", "cond_wait", "cond_signal",
                        "cond_broadcast"}}

\* The lock the workloads associate with the condition.
CondLock == CHOOSE l \in Locks : <<"cond_wait", l>> \in MonitorOps

FreeWorkloads == {"locks", "semaphore", "monitor"}
FreeOps(w) ==
  CASE w = "locks" -> LockOps
    [] w = "semaphore" -> SemaOps
    [] w = "monitor" -> MonitorOps

A(l) == <<"lock_acquire", l>>
R(l) == <<"lock_release", l>>
Nap == <<"sleep", 0>>

\* sema_self_test (thread 1) and sema_test_helper (thread 2).
PingPong(t) ==
  [i \in 1..(2 * Iterations) |->
     IF t = 1 THEN (IF i % 2 = 1 THEN <<"sema_up", 0>> ELSE <<"sema_down", 1>>)
     ELSE (IF i % 2 = 1 THEN <<"sema_down", 0>> ELSE <<"sema_up", 1>>)]

Script(w, t) ==
  CASE w = "pingpong" /\ t \in {1, 2} -> PingPong(t)
    \* thread 3 waits for lock 1 of thread 2, which waits for lock 2 of thread 1
    [] w = "nested" /\ t = 1 -> <<A(2)>>
    [] w = "nested" /\ t = 2 -> <<A(1), A(2)>>
    [] w = "nested" /\ t = 3 -> <<A(1)>>
    \* thread 1 releases one of two locks while threads 2 and 3 acquire them
    [] w = "release" /\ t = 1 -> <<A(1), A(2), R(1)>>
    [] w = "release" /\ t = 2 -> <<A(1)>>
    [] w = "release" /\ t = 3 -> <<A(2)>>
    \* threads 2 and 3 wait for lock 1 of thread 1; thread 4 wants lock 2 of 3
    [] w = "resort" /\ t = 1 -> <<A(1), Nap, R(1)>>
    [] w = "resort" /\ t = 2 -> <<A(1)>>
    [] w = "resort" /\ t = 3 -> <<A(2), A(1)>>
    [] w = "resort" /\ t = 4 -> <<A(2)>>
    \* thread 1 still owns lock 2 after it has released lock 1, the lock it
    \* acquired last; thread 2 owns lock 1 when thread 3 wants lock 2
    [] w = "stale" /\ t = 1 -> <<A(2), A(1), R(1), R(2)>>
    [] w = "stale" /\ t = 2 -> <<A(1), R(1)>>
    [] w = "stale" /\ t = 3 -> <<A(2)>>
    \* the donor wants the lock at the head of a chain of blocked owners
    [] w = "chain" /\ t = Donor -> <<A(1)>>
    \* threads 1 and 2 wait on the condition, 1 holding lock 2, which thread 3
    \* wants; thread 4 signals
    [] w = "condvar" /\ t = 1 -> <<A(2), A(1), <<"cond_wait", 1>>>>
    [] w = "condvar" /\ t = 2 -> <<A(1), <<"cond_wait", 1>>>>
    [] w = "condvar" /\ t = 3 -> <<A(2)>>
    [] w = "condvar" /\ t = 4 -> <<A(1), <<"cond_signal", 1>>>>
    [] OTHER -> <<>>

\* The threads a workload runs.
Active(w) ==
  CASE w = "locks" -> {1, 2}
    [] w = "semaphore" -> {1, 2, 3}
    [] w = "monitor" -> {1, 2, 3}
    [] OTHER -> {t \in Threads : Script(w, t) # <<>>}

Permitted(t, op) ==
  IF workload \in FreeWorkloads
  THEN op \in FreeOps(workload)
  ELSE ops[t] < Len(Script(workload, t)) /\ op = Script(workload, t)[ops[t] + 1]

\* A thread calls an operation of synch.c from its own code.
Begin(t, op) ==
  /\ Running(t) /\ pc[t] = "idle"
  /\ Permitted(t, op)
  /\ ops' = IF workload \in FreeWorkloads THEN ops ELSE [ops EXCEPT ![t] = @ + 1]
IntrEnabled == \A t \in Threads : status[t] = "RUNNING" => ~intr_off[t]

\* ----------------------------------------------------------------- Init
TypeInit ==
  /\ original_priority = [t \in Threads |-> NoPriority]
  /\ status = [t \in Threads |-> "BLOCKED"]
  /\ wait_semaphore = [t \in Threads |-> NoSema]
  /\ wait_lock = [t \in Threads |-> NULL]
  /\ locks = [t \in Threads |-> <<>>]
  /\ ready_list = <<>>
  /\ waiters = [s \in AllSemas |-> <<>>]
  /\ holder = [l \in Locks |-> NULL]
  /\ cond_waiters = <<>>
  /\ pc = [t \in Threads |-> "asleep"]
  /\ local = [t \in Threads |-> NoLocal]
  /\ intr_off = [t \in Threads |-> FALSE]
  /\ panicked = FALSE
  /\ downs = [s \in AllSemas |-> 0]
  /\ arrivals = [s \in AllSemas |-> <<>>]
  /\ ops = [t \in Threads |-> 0]

\* lock_init: holder NULL, semaphore 1.  sema_init (&waiter.semaphore, 0).
InitValue(v) ==
  [s \in AllSemas |-> IF s[1] = "lock" THEN 1 ELSE IF s = TheSema THEN v ELSE 0]

\* The threads of a free workload are interchangeable: their priorities are
\* taken in ascending order.  A thread the workload does not run has priority 1.
\* In the four-thread scripts the waiting threads are below the running ones.
Priorities(w) ==
  {f \in [Threads -> 1..MaxPri] :
     /\ \A t \in Threads \ Active(w) : f[t] = 1
     /\ w \in FreeWorkloads => \A i, j \in Active(w) : i < j => f[i] <= f[j]
     /\ w = "monitor" => f[1] = 1 /\ f[2] < f[3]
     /\ w = "resort" => f[3] < f[2] /\ f[2] < f[4] /\ f[1] = f[4]
     /\ w = "stale" => f[1] <= f[2] /\ f[2] < f[3]
     /\ w = "condvar" => f[1] < f[2] /\ f[2] < f[3] /\ f[4] = f[1]}

SemaInit ==
  /\ TypeInit
  /\ workload = "semaphore"
  /\ priority \in Priorities(workload)
  /\ \E v \in 0..MaxInit : value = InitValue(v) /\ permits = InitValue(v)

\* ------------------------------------------------------ timer and wake-up
\* The timer interrupt ends the running thread's time slice: thread_yield ().
\* With the idle thread running it hands the CPU to the front of the ready list.
Tick ==
  /\ ~panicked /\ IntrEnabled
  /\ LET sch == IF \E t \in Threads : status[t] = "RUNNING"
                THEN thread_yield(Sched, CHOOSE t \in Threads : status[t] = "RUNNING",
                                  priority)
                ELSE schedule(Sched)
     IN /\ sch # Sched
        /\ status' = sch.st /\ ready_list' = sch.rl
  /\ UNCHANGED <<threadVars, semaVars, holder, cond_waiters, pc, local, intr_off,
                 panicked, restVars>>

\* A thread between two operations goes to sleep (timer_sleep, I/O wait).
Sleep(t) ==
  /\ Begin(t, <<"sleep", 0>>)
  /\ LET sch == thread_block(Sched, t)
     IN status' = sch.st /\ ready_list' = sch.rl
  /\ pc' = [pc EXCEPT ![t] = "asleep"]
  /\ UNCHANGED <<threadVars, semaVars, holder, cond_waiters, local, intr_off, panicked,
                 histVars>>

\* A thread that has run its script to the end exits.
Finish(t) ==
  /\ Running(t) /\ pc[t] = "idle"
  /\ workload \notin FreeWorkloads /\ ops[t] = Len(Script(workload, t))
  /\ LET sch == thread_block(Sched, t)
     IN status' = sch.st /\ ready_list' = sch.rl
  /\ pc' = [pc EXCEPT ![t] = "done"]
  /\ UNCHANGED <<threadVars, semaVars, holder, cond_waiters, local, intr_off,
                 panicked, restVars>>

\* An interrupt handler unblocks a sleeping (or newly created) thread.
\* The threads of a scripted workload are created in the order of their numbers.
Started(t) == pc[t] # "asleep" \/ ops[t] > 0

Wake(t) ==
  /\ ~panicked /\ IntrEnabled
  /\ pc[t] = "asleep" /\ t \in Active(workload)
  /\ workload \notin FreeWorkloads => \A u \in Active(workload) : u < t => Started(u)
  /\ LET sch == thread_unblock(Sched, t, priority)
     IN status' = sch.st /\ ready_list' = sch.rl
  /\ pc' = [pc EXCEPT ![t] = "idle"]
  /\ UNCHANGED <<threadVars, semaVars, holder, cond_waiters, local, intr_off, panicked,
                 restVars>>

\* ------------------------------------------------------------- semaphores
\* sema_down with list_push_front in place of list_insert_ordered.
sema_down_body_push_front(t, s, blockpc, donepc) ==
  IF value[s] = 0
  THEN /\ waiters' = [waiters EXCEPT ![s] = <<t>> \o @]
       /\ wait_semaphore' = [wait_semaphore EXCEPT ![t] = s]
       /\ LET sch == thread_block(Sched, t)
          IN status' = sch.st /\ ready_list' = sch.rl
       /\ pc' = [pc EXCEPT ![t] = blockpc]
       /\ intr_off' = [intr_off EXCEPT ![t] = TRUE]
       /\ arrivals' = IF Tracked(s) /\ ~InSeq(arrivals[s], t)
                      THEN [arrivals EXCEPT ![s] = Append(@, t)] ELSE arrivals
       /\ UNCHANGED <<value, downs>>
  ELSE /\ value' = [value EXCEPT ![s] = @ - 1]
       /\ pc' = [pc EXCEPT ![t] = donepc]
       /\ intr_off' = [intr_off EXCEPT ![t] = FALSE]
       /\ arrivals' = [arrivals EXCEPT ![s] = SeqRemove(@, t)]
       /\ downs' = IF Tracked(s) THEN [downs EXCEPT ![s] = @ + 1] ELSE downs
       /\ UNCHANGED <<waiters, wait_semaphore, status, ready_list>>

\* sema_down (s) by t, from the call or from the wake-up inside the loop.
\* donepc is where the caller continues; blockpc names the blocked position.
sema_down_body(t, s, blockpc, donepc) ==
  IF value[s] = 0
  THEN /\ waiters' = [waiters EXCEPT ![s] = list_insert_ordered(@, t, priority)]
       /\ wait_semaphore' = [wait_semaphore EXCEPT ![t] = s]
       /\ LET sch == thread_block(Sched, t)
          IN status' = sch.st /\ ready_list' = sch.rl
       /\ pc' = [pc EXCEPT ![t] = blockpc]
       /\ intr_off' = [intr_off EXCEPT ![t] = TRUE]
       /\ arrivals' = IF Tracked(s) /\ ~InSeq(arrivals[s], t)
                      THEN [arrivals EXCEPT ![s] = Append(@, t)] ELSE arrivals
       /\ UNCHANGED <<value, downs>>
  ELSE /\ value' = [value EXCEPT ![s] = @ - 1]
       /\ pc' = [pc EXCEPT ![t] = donepc]
       /\ intr_off' = [intr_off EXCEPT ![t] = FALSE]
       /\ arrivals' = [arrivals EXCEPT ![s] = SeqRemove(@, t)]
       /\ downs' = IF Tracked(s) THEN [downs EXCEPT ![s] = @ + 1] ELSE downs
       /\ UNCHANGED <<waiters, wait_semaphore, status, ready_list>>

\* sema_up that increments the counter and wakes nobody.
sema_up_body_lost(t, s) ==
  /\ value' = [value EXCEPT ![s] = @ + 1]
  /\ permits' = IF Tracked(s) THEN [permits EXCEPT ![s] = @ + 1] ELSE permits
  /\ UNCHANGED <<waiters, wait_semaphore, status, ready_list>>

\* sema_up (s) by t: wake the front waiter, increment, priority_yield ().
sema_up_body(t, s) ==
  LET woken == IF waiters[s] # <<>> THEN Head(waiters[s]) ELSE NULL
      sch1 == IF woken # NULL THEN thread_unblock(Sched, woken, priority) ELSE Sched
      sch2 == priority_yield(sch1, t, priority)
  IN /\ waiters' = [waiters EXCEPT ![s] = IF @ # <<>> THEN Tail(@) ELSE @]
     /\ wait_semaphore' = IF woken # NULL
                          THEN [wait_semaphore EXCEPT ![woken] = NoSema]
                          ELSE wait_semaphore
     /\ value' = [value EXCEPT ![s] = @ + 1]
     /\ status' = sch2.st /\ ready_list' = sch2.rl
     /\ permits' = IF Tracked(s) THEN [permits EXCEPT ![s] = @ + 1] ELSE permits

sema_down(t, s) ==
  /\ \/ Begin(t, <<"sema_down", s[2]>>) /\ local' = [local EXCEPT ![t].sema = s]
     \/ /\ Running(t) /\ pc[t] = "sema_down" /\ local[t].sema = s
        /\ UNCHANGED <<local, ops>>
  /\ sema_down_body(t, s, "sema_down", "idle")
  /\ UNCHANGED <<priority, original_priority, wait_lock, locks, holder, cond_waiters,
                 panicked, permits, workload>>

\* sema_try_down with the test value >= 0 in place of value > 0.
sema_try_down_at_zero(t, s) ==
  /\ Begin(t, <<"sema_try_down", s[2]>>)
  /\ IF value[s] >= 0
     THEN /\ value' = [value EXCEPT ![s] = @ - 1]
          /\ downs' = [downs EXCEPT ![s] = @ + 1]
     ELSE UNCHANGED <<value, downs>>
  /\ UNCHANGED <<threadVars, schedVars, waiters, holder, cond_waiters, pc, local,
                 intr_off, panicked, permits, arrivals, workload>>

sema_try_down(t, s) ==
  /\ Begin(t, <<"sema_try_down", s[2]>>)
  /\ IF value[s] > 0
     THEN /\ value' = [value EXCEPT ![s] = @ - 1]
          /\ downs' = [downs EXCEPT ![s] = @ + 1]
     ELSE UNCHANGED <<value, downs>>
  /\ UNCHANGED <<threadVars, schedVars, waiters, holder, cond_waiters, pc, local,
                 intr_off, panicked, permits, arrivals, workload>>

sema_up(t, s) ==
  /\ Begin(t, <<"sema_up", s[2]>>)
  /\ workload \in FreeWorkloads => permits[s] < MaxInit + MaxUps
  /\ sema_up_body(t, s)
  /\ UNCHANGED <<priority, original_priority, wait_lock, locks, holder, cond_waiters,
                 pc, local, intr_off, panicked, downs, arrivals, workload>>

SemaNext ==
  \/ Tick
  \/ \E t \in Threads : Sleep(t)
  \/ \E t \in Threads : Wake(t)
  \/ \E t \in Threads : sema_down(t, TheSema)
  \/ \E t \in Threads : sema_try_down(t, TheSema)
  \/ \E t \in Threads : sema_up(t, TheSema)

SpecSema == SemaInit /\ [][SemaNext]_vars

\* sema_self_test and sema_test_helper: the two threads take their steps, the
\* helper is created, and the timer keeps ticking.
PingPongStep ==
  \/ \E t \in Threads : Finish(t)
  \/ \E t \in Threads, s \in PingPongSemas : sema_down(t, s)
  \/ \E t \in Threads, s \in PingPongSemas : sema_up(t, s)

PingPongNext ==
  \/ Tick
  \/ \E t \in Threads : Wake(t)
  \/ PingPongStep

PingPongInit ==
  /\ TypeInit
  /\ workload = "pingpong"
  /\ priority \in Priorities(workload)
  /\ value = InitValue(0) /\ permits = InitValue(0)

SpecPingPong ==
  /\ PingPongInit /\ [][PingPongNext]_vars
  /\ WF_vars(Tick) /\ WF_vars(\E t \in Threads : Wake(t)) /\ WF_vars(PingPongStep)

\* ------------------------------------------------------------------ locks
lock_held_by_current_thread(t, lock) == holder[lock] = t

\* max_waiter_priority (l): priority of the front waiter of l's semaphore.
max_waiter_priority(l) ==
  IF waiters[LockSema(l)] # <<>> THEN priority[Head(waiters[LockSema(l)])]
  ELSE NoPriority

\* lock_priority_lower (a, b), the order list_max uses.
lock_priority_lower(a, b) == max_waiter_priority(a) < max_waiter_priority(b)

\* list_max (list, lock_priority_lower): the first element no other is above.
RECURSIVE list_max_from(_, _)
list_max_from(max, rest) ==
  IF rest = <<>> THEN max
  ELSE list_max_from(IF lock_priority_lower(max, Head(rest)) THEN Head(rest) ELSE max,
                     Tail(rest))
list_max(list) == list_max_from(Head(list), Tail(list))

\* An ASSERT of lock_acquire, lock_try_acquire, lock_release, cond_wait or
\* cond_signal fails: the kernel panics and nothing runs any more.
Panic(t) ==
  /\ panicked' = TRUE
  /\ UNCHANGED <<threadVars, schedVars, semaVars, holder, cond_waiters, pc, local,
                 intr_off, histVars>>

\* Return from lock_acquire or lock_release: to the caller's code, or back into
\* cond_wait when that is the caller.
AfterAcquire(t) == [pc EXCEPT ![t] = "idle"]
AfterRelease(t) == [pc EXCEPT ![t] = IF local[t].in_wait THEN "cw_down" ELSE "idle"]

\* lock_acquire, lines 266-270: the ASSERTs and the call of donate_nested.
lock_acquire_begin(t, lock) ==
  /\ pc' = [pc EXCEPT ![t] = "donate"]
  /\ local' = [local EXCEPT ![t].lock = lock, ![t].a = t, ![t].l = lock, ![t].n = 0]
  /\ UNCHANGED <<threadVars, schedVars, semaVars, holder, cond_waiters, intr_off,
                 panicked, histVars>>

lock_acquire(t, lock) ==
  /\ \/ Begin(t, <<"lock_acquire", lock>>)
     \/ Running(t) /\ pc[t] = "cw_acquire" /\ local[t].lock = lock /\ UNCHANGED ops
  /\ IF lock_held_by_current_thread(t, lock) THEN Panic(t)
     ELSE lock_acquire_begin(t, lock)

\* donate_nested without the depth cap of line 213.
donate_nested_test_uncapped(t) ==
  /\ Running(t) /\ pc[t] = "donate"
  /\ LET a == local[t].a
         l == local[t].l
         return == /\ pc' = [pc EXCEPT ![t] = "la_wait_lock"]
                   /\ local' = [local EXCEPT ![t].a = NULL, ![t].l = NULL, ![t].n = 0,
                                             ![t].h = NULL]
                   /\ UNCHANGED panicked
     IN IF l = NULL
        THEN \/ return
             \/ panicked' = TRUE /\ UNCHANGED <<pc, local>>
        ELSE IF holder[l] # NULL /\ priority[holder[l]] < priority[a]
        THEN /\ pc' = [pc EXCEPT ![t] = "donate_save"]
             /\ local' = [local EXCEPT ![t].h = holder[l]]
             /\ UNCHANGED panicked
        ELSE return
  /\ UNCHANGED <<threadVars, schedVars, semaVars, holder, cond_waiters, intr_off,
                 restVars>>

\* donate_nested, lines 213-217: the depth cap, then the test of the holder.
\* l is NULL when the previous holder never called lock_acquire: l->holder then
\* reads through a null pointer, which faults or yields no holder.
donate_nested_test(t) ==
  /\ Running(t) /\ pc[t] = "donate"
  /\ LET a == local[t].a
         l == local[t].l
         return == /\ pc' = [pc EXCEPT ![t] = "la_wait_lock"]
                   /\ local' = [local EXCEPT ![t].a = NULL, ![t].l = NULL, ![t].n = 0,
                                             ![t].h = NULL]
                   /\ UNCHANGED panicked
     IN IF local[t].n = MaxDonationDepth THEN return
        ELSE IF l = NULL
        THEN \/ return
             \/ panicked' = TRUE /\ UNCHANGED <<pc, local>>
        ELSE IF holder[l] # NULL /\ priority[holder[l]] < priority[a]
        THEN /\ pc' = [pc EXCEPT ![t] = "donate_save"]
             /\ local' = [local EXCEPT ![t].h = holder[l]]
             /\ UNCHANGED panicked
        ELSE return
  /\ UNCHANGED <<threadVars, schedVars, semaVars, holder, cond_waiters, intr_off,
                 restVars>>

\* donate_nested, lines 218-219: the first donation records the base priority.
donate_nested_save(t) ==
  /\ Running(t) /\ pc[t] = "donate_save"
  /\ LET h == local[t].h
     IN original_priority' = IF original_priority[h] = NoPriority
                             THEN [original_priority EXCEPT ![h] = priority[h]]
                             ELSE original_priority
  /\ pc' = [pc EXCEPT ![t] = "donate_raise"]
  /\ UNCHANGED <<priority, wait_semaphore, wait_lock, locks, schedVars, semaVars,
                 holder, cond_waiters, local, intr_off, panicked, restVars>>

\* donate_nested, line 220.
donate_nested_raise(t) ==
  /\ Running(t) /\ pc[t] = "donate_raise"
  /\ priority' = [priority EXCEPT ![local[t].h] = priority[local[t].a]]
  /\ pc' = [pc EXCEPT ![t] = "donate_resort"]
  /\ UNCHANGED <<original_priority, wait_semaphore, wait_lock, locks, schedVars,
                 semaVars, holder, cond_waiters, local, intr_off, panicked, restVars>>

\* update_wait_list_when_thread_priority_changes (t, wait_list).
update_wait_list_when_thread_priority_changes(h, wait_list) ==
  list_insert_ordered(SeqRemove(wait_list, h), h, priority)

\* update_ready_list_when_thread_priority_changes (h) is reached only with h the
\* RUNNING thread, whose elem is in no list: list_remove works on stale links.
\* The kernel faults, or the stale links happen to leave the list as it is and
\* h is inserted into the ready list.
update_ready_list_when_thread_priority_changes(t, h) ==
  \/ /\ panicked' = TRUE
     /\ UNCHANGED <<schedVars, pc, local>>
  \/ /\ LET sch == priority_yield([st |-> status,
                                   rl |-> list_insert_ordered(ready_list, h, priority)],
                                  t, priority)
        IN status' = sch.st /\ ready_list' = sch.rl
     /\ pc' = [pc EXCEPT ![t] = "la_wait_lock"]
     /\ local' = [local EXCEPT ![t].a = NULL, ![t].l = NULL, ![t].n = 0, ![t].h = NULL]
     /\ UNCHANGED panicked

\* donate_nested, lines 221-227: keep the list the holder sits in sorted.
donate_nested_resort(t) ==
  /\ Running(t) /\ pc[t] = "donate_resort"
  /\ LET h == local[t].h
     IN IF status[h] = "RUNNING"
        THEN /\ update_ready_list_when_thread_priority_changes(t, h)
             /\ UNCHANGED waiters
        ELSE /\ waiters' = IF wait_semaphore[h] # NoSema
                           THEN [waiters EXCEPT ![wait_semaphore[h]] =
                                   update_wait_list_when_thread_priority_changes(h, @)]
                           ELSE waiters
             /\ pc' = [pc EXCEPT ![t] = "donate_recurse"]
             /\ UNCHANGED <<schedVars, local, panicked>>
  /\ UNCHANGED <<threadVars, value, holder, cond_waiters, intr_off, restVars>>

\* donate_nested, line 228: the holder donates on to the lock it waits for.
donate_nested_recurse(t) ==
  /\ Running(t) /\ pc[t] = "donate_recurse"
  /\ LET h == local[t].h
     IN local' = [local EXCEPT ![t].a = h, ![t].l = wait_lock[h], ![t].n = @ + 1,
                               ![t].h = NULL]
  /\ pc' = [pc EXCEPT ![t] = "donate"]
  /\ UNCHANGED <<threadVars, schedVars, semaVars, holder, cond_waiters, intr_off,
                 panicked, restVars>>

\* lock_acquire, line 271.
lock_acquire_wait_lock(t) ==
  /\ Running(t) /\ pc[t] = "la_wait_lock"
  /\ wait_lock' = [wait_lock EXCEPT ![t] = local[t].lock]
  /\ pc' = [pc EXCEPT ![t] = "la_down"]
  /\ UNCHANGED <<priority, original_priority, wait_semaphore, locks, schedVars,
                 semaVars, holder, cond_waiters, local, intr_off, panicked, restVars>>

\* lock_acquire, line 272.
lock_acquire_down(t) ==
  /\ Running(t) /\ pc[t] = "la_down"
  /\ sema_down_body(t, LockSema(local[t].lock), "la_down", "la_holder")
  /\ UNCHANGED <<priority, original_priority, wait_lock, locks, holder, cond_waiters,
                 local, panicked, permits, ops, workload>>

\* lock_acquire, line 273.
lock_acquire_holder(t) ==
  /\ Running(t) /\ pc[t] = "la_holder"
  /\ holder' = [holder EXCEPT ![local[t].lock] = t]
  /\ pc' = [pc EXCEPT ![t] = "la_push"]
  /\ UNCHANGED <<threadVars, schedVars, semaVars, cond_waiters, local, intr_off,
                 panicked, restVars>>

\* lock_acquire, line 274, and the return.
lock_acquire_push(t) ==
  /\ Running(t) /\ pc[t] = "la_push"
  /\ locks' = [locks EXCEPT ![t] = Append(@, local[t].lock)]
  /\ pc' = AfterAcquire(t)
  /\ local' = [local EXCEPT ![t] = NoLocal]
  /\ UNCHANGED <<priority, original_priority, wait_semaphore, wait_lock, schedVars,
                 semaVars, holder, cond_waiters, intr_off, panicked, restVars>>

\* lock_try_acquire that takes the lock whatever sema_try_down returned.
lock_try_acquire_down_unchecked(t, lock) ==
  /\ value' = [value EXCEPT ![LockSema(lock)] = IF @ > 0 THEN @ - 1 ELSE @]
  /\ pc' = [pc EXCEPT ![t] = "lt_holder"]
  /\ local' = [local EXCEPT ![t].lock = lock]
  /\ UNCHANGED <<threadVars, schedVars, waiters, holder, cond_waiters, intr_off,
                 panicked, histVars>>

\* lock_try_acquire, lines 288-292: the ASSERT and sema_try_down.
\* lock_try_acquire that calls sema_down in place of sema_try_down.
lock_try_acquire_down_blocking(t, lock) ==
  /\ sema_down_body(t, LockSema(lock), "lt_down", "lt_holder")
  /\ local' = [local EXCEPT ![t].lock = lock]
  /\ UNCHANGED <<priority, original_priority, wait_lock, locks, holder, cond_waiters,
                 panicked, permits, workload>>

lock_try_acquire_down(t, lock) ==
  /\ IF value[LockSema(lock)] > 0
     THEN /\ value' = [value EXCEPT ![LockSema(lock)] = @ - 1]
          /\ pc' = [pc EXCEPT ![t] = "lt_holder"]
          /\ local' = [local EXCEPT ![t].lock = lock]
     ELSE UNCHANGED <<value, pc, local>>
  /\ UNCHANGED <<threadVars, schedVars, waiters, holder, cond_waiters, intr_off,
                 panicked, histVars>>

lock_try_acquire(t, lock) ==
  /\ Begin(t, <<"lock_try_acquire", lock>>)
  /\ IF lock_held_by_current_thread(t, lock) THEN Panic(t)
     ELSE lock_try_acquire_down(t, lock)

\* lock_try_acquire, line 293.
lock_try_acquire_holder(t) ==
  /\ Running(t) /\ pc[t] = "lt_holder"
  /\ holder' = [holder EXCEPT ![local[t].lock] = t]
  /\ pc' = [pc EXCEPT ![t] = "lt_push"]
  /\ UNCHANGED <<threadVars, schedVars, semaVars, cond_waiters, local, intr_off,
                 panicked, restVars>>

\* lock_try_acquire, line 294, and the return.
lock_try_acquire_push(t) ==
  /\ Running(t) /\ pc[t] = "lt_push"
  /\ locks' = [locks EXCEPT ![t] = Append(@, local[t].lock)]
  /\ pc' = [pc EXCEPT ![t] = "idle"]
  /\ local' = [local EXCEPT ![t] = NoLocal]
  /\ UNCHANGED <<priority, original_priority, wait_semaphore, wait_lock, schedVars,
                 semaVars, holder, cond_waiters, intr_off, panicked, restVars>>

\* lock_release, lines 331-334: the ASSERTs and list_remove (&lock->elem).
lock_release_remove(t, lock) ==
  /\ locks' = [locks EXCEPT ![t] = SeqRemove(@, lock)]
  /\ pc' = [pc EXCEPT ![t] = "lr_clear"]
  /\ local' = [local EXCEPT ![t].lock = lock]
  /\ UNCHANGED <<priority, original_priority, wait_semaphore, wait_lock, schedVars,
                 semaVars, holder, cond_waiters, intr_off, panicked, histVars>>

\* lock_release without ASSERT (lock_held_by_current_thread (lock)).
lock_release_unchecked(t, lock) ==
  /\ \/ Begin(t, <<"lock_release", lock>>)
     \/ Running(t) /\ pc[t] = "cw_release" /\ local[t].lock = lock /\ UNCHANGED ops
  /\ lock_release_remove(t, lock)

lock_release(t, lock) ==
  /\ \/ Begin(t, <<"lock_release", lock>>)
     \/ Running(t) /\ pc[t] = "cw_release" /\ local[t].lock = lock /\ UNCHANGED ops
  /\ IF ~lock_held_by_current_thread(t, lock) THEN Panic(t)
     ELSE lock_release_remove(t, lock)

\* lock_release, line 336.
lock_release_clear(t) ==
  /\ Running(t) /\ pc[t] = "lr_clear"
  /\ holder' = [holder EXCEPT ![local[t].lock] = NULL]
  /\ pc' = [pc EXCEPT ![t] = "utp_test"]
  /\ UNCHANGED <<threadVars, schedVars, semaVars, cond_waiters, local, intr_off,
                 panicked, restVars>>

\* update_thread_priority, line 303.
update_thread_priority_test(t) ==
  /\ Running(t) /\ pc[t] = "utp_test"
  /\ pc' = [pc EXCEPT ![t] = IF original_priority[t] # NoPriority THEN "utp_compute"
                              ELSE "lr_up"]
  /\ UNCHANGED <<threadVars, schedVars, semaVars, holder, cond_waiters, local, intr_off,
                 panicked, restVars>>

\* update_thread_priority, lines 305-318: new_priority, and whether the base
\* priority is cleared.
NewPriority(t) ==
  IF locks[t] = <<>> THEN [np |-> original_priority[t], clear |-> TRUE]
  ELSE LET max_priority_for_a_lock == max_waiter_priority(list_max(locks[t]))
       IN IF max_priority_for_a_lock > original_priority[t]
          THEN [np |-> max_priority_for_a_lock, clear |-> FALSE]
          ELSE [np |-> original_priority[t], clear |-> TRUE]

update_thread_priority_compute(t) ==
  /\ Running(t) /\ pc[t] = "utp_compute"
  /\ local' = [local EXCEPT ![t].np = NewPriority(t).np]
  /\ original_priority' = IF NewPriority(t).clear
                          THEN [original_priority EXCEPT ![t] = NoPriority]
                          ELSE original_priority
  /\ pc' = [pc EXCEPT ![t] = "utp_write"]
  /\ UNCHANGED <<priority, wait_semaphore, wait_lock, locks, schedVars, semaVars,
                 holder, cond_waiters, intr_off, panicked, restVars>>

\* update_thread_priority, line 319.
update_thread_priority_write(t) ==
  /\ Running(t) /\ pc[t] = "utp_write"
  /\ priority' = [priority EXCEPT ![t] = local[t].np]
  /\ local' = [local EXCEPT ![t].np = NoPriority]
  /\ pc' = [pc EXCEPT ![t] = "lr_up"]
  /\ UNCHANGED <<original_priority, wait_semaphore, wait_lock, locks, schedVars,
                 semaVars, holder, cond_waiters, intr_off, panicked, restVars>>

\* lock_release, line 338, and the return.
lock_release_up(t) ==
  /\ Running(t) /\ pc[t] = "lr_up"
  /\ sema_up_body(t, LockSema(local[t].lock))
  /\ pc' = AfterRelease(t)
  /\ local' = [local EXCEPT ![t] = IF local[t].in_wait
                                   THEN [NoLocal EXCEPT !.in_wait = TRUE,
                                                        !.lock = local[t].lock]
                                   ELSE NoLocal]
  /\ UNCHANGED <<priority, original_priority, wait_lock, locks, holder, cond_waiters,
                 intr_off, panicked, downs, arrivals, ops, workload>>

LockNext ==
  \/ Tick
  \/ \E t \in Threads : Sleep(t)
  \/ \E t \in Threads : Wake(t)
  \/ \E t \in Threads, l \in Locks : lock_acquire(t, l)
  \/ \E t \in Threads : donate_nested_test(t)
  \/ \E t \in Threads : donate_nested_save(t)
  \/ \E t \in Threads : donate_nested_raise(t)
  \/ \E t \in Threads : donate_nested_resort(t)
  \/ \E t \in Threads : donate_nested_recurse(t)
  \/ \E t \in Threads : lock_acquire_wait_lock(t)
  \/ \E t \in Threads : lock_acquire_down(t)
  \/ \E t \in Threads : lock_acquire_holder(t)
  \/ \E t \in Threads : lock_acquire_push(t)
  \/ \E t \in Threads, l \in Locks : lock_try_acquire(t, l)
  \/ \E t \in Threads : lock_try_acquire_holder(t)
  \/ \E t \in Threads : lock_try_acquire_push(t)
  \/ \E t \in Threads, l \in Locks : lock_release(t, l)
  \/ \E t \in Threads : lock_release_clear(t)
  \/ \E t \in Threads : update_thread_priority_test(t)
  \/ \E t \in Threads : update_thread_priority_compute(t)
  \/ \E t \in Threads : update_thread_priority_write(t)
  \/ \E t \in Threads : lock_release_up(t)

LockInit ==
  /\ TypeInit
  /\ workload = "locks"
  /\ priority \in Priorities(workload)
  /\ value = InitValue(0) /\ permits = InitValue(0)

SpecLock == LockInit /\ [][LockNext]_vars

\* Scripted lock workloads with three and four threads.
DonationNext ==
  \/ Tick
  \/ \E t \in Threads : Sleep(t)
  \/ \E t \in Threads : Wake(t)
  \/ \E t \in Threads : Finish(t)
  \/ \E t \in Threads, l \in Locks : lock_acquire(t, l)
  \/ \E t \in Threads : donate_nested_test(t)
  \/ \E t \in Threads : donate_nested_save(t)
  \/ \E t \in Threads : donate_nested_raise(t)
  \/ \E t \in Threads : donate_nested_resort(t)
  \/ \E t \in Threads : donate_nested_recurse(t)
  \/ \E t \in Threads : lock_acquire_wait_lock(t)
  \/ \E t \in Threads : lock_acquire_down(t)
  \/ \E t \in Threads : lock_acquire_holder(t)
  \/ \E t \in Threads : lock_acquire_push(t)
  \/ \E t \in Threads, l \in Locks : lock_release(t, l)
  \/ \E t \in Threads : lock_release_clear(t)
  \/ \E t \in Threads : update_thread_priority_test(t)
  \/ \E t \in Threads : update_thread_priority_compute(t)
  \/ \E t \in Threads : update_thread_priority_write(t)
  \/ \E t \in Threads : lock_release_up(t)

DonationInit ==
  /\ TypeInit
  /\ workload \in {"nested", "release", "resort", "stale"}
  /\ priority \in Priorities(workload)
  /\ value = InitValue(0) /\ permits = InitValue(0)

SpecDonation == DonationInit /\ [][DonationNext]_vars

\* One lock_acquire by the donor on lock 1, the head of a chain of k owners:
\* owner i holds lock i, which it got by lock_acquire, and is blocked in
\* lock_acquire of lock i + 1.  The last owner sleeps (c = 0) or is blocked on
\* lock c of the chain, which closes a cycle.  The owners have one priority, so
\* none of them has donated to another.
ChainSucc(k, c, i) == IF i < k THEN i + 1 ELSE c
ChainWaits(k, c, i) == i <= k /\ ChainSucc(k, c, i) # 0
ChainWaiters(k, c, l) ==
  (IF 1 < l /\ l <= k THEN <<l - 1>> ELSE <<>>) \o (IF l = c THEN <<k>> ELSE <<>>)

ChainInit ==
  \E k \in 1..MaxChain, p0 \in 1..(MaxPri - 1), pd \in 1..MaxPri :
    \E c \in 0..(k - 1) :
      /\ priority = [t \in ChainThreads |-> IF t = Donor THEN pd ELSE p0]
      /\ original_priority = [t \in ChainThreads |-> NoPriority]
      /\ status = [t \in ChainThreads |-> IF t = Donor THEN "RUNNING" ELSE "BLOCKED"]
      /\ wait_semaphore = [t \in ChainThreads |->
                             IF ChainWaits(k, c, t) THEN LockSema(ChainSucc(k, c, t))
                             ELSE NoSema]
      /\ wait_lock = [t \in ChainThreads |->
                        IF t > k THEN NULL
                        ELSE IF ChainWaits(k, c, t) THEN ChainSucc(k, c, t) ELSE t]
      /\ locks = [t \in ChainThreads |-> IF t <= k THEN <<t>> ELSE <<>>]
      /\ ready_list = <<>>
      /\ value = [s \in {LockSema(l) : l \in ChainLocks} |-> IF s[2] <= k THEN 0 ELSE 1]
      /\ waiters = [s \in {LockSema(l) : l \in ChainLocks} |-> ChainWaiters(k, c, s[2])]
      /\ holder = [l \in ChainLocks |-> IF l <= k THEN l ELSE NULL]
      /\ cond_waiters = <<>>
      /\ pc = [t \in ChainThreads |->
                 IF t = Donor THEN "idle"
                 ELSE IF ChainWaits(k, c, t) THEN "la_down" ELSE "asleep"]
      /\ local = [t \in ChainThreads |->
                    IF ChainWaits(k, c, t)
                    THEN [NoLocal EXCEPT !.lock = ChainSucc(k, c, t)] ELSE NoLocal]
      /\ intr_off = [t \in ChainThreads |-> ChainWaits(k, c, t)]
      /\ panicked = FALSE
      /\ permits = [s \in {LockSema(l) : l \in ChainLocks} |-> 1]
      /\ downs = [s \in {LockSema(l) : l \in ChainLocks} |-> 0]
      /\ arrivals = [s \in {LockSema(l) : l \in ChainLocks} |-> <<>>]
      /\ ops = [t \in ChainThreads |-> 0]
      /\ workload = "chain"

ChainNext ==
  \/ \E t \in ChainThreads, l \in ChainLocks : lock_acquire(t, l)
  \/ \E t \in ChainThreads : donate_nested_test(t)
  \/ \E t \in ChainThreads : donate_nested_save(t)
  \/ \E t \in ChainThreads : donate_nested_raise(t)
  \/ \E t \in ChainThreads : donate_nested_resort(t)
  \/ \E t \in ChainThreads : donate_nested_recurse(t)
  \/ \E t \in ChainThreads : lock_acquire_wait_lock(t)
  \/ \E t \in ChainThreads : lock_acquire_down(t)

\* The donor is the only thread that can run: it takes its steps.
SpecChain == ChainInit /\ [][ChainNext]_vars /\ WF_vars(ChainNext)

\* ---------------------------------------------------- condition variables
\* cond_priority_higher (a, b) on two semaphore_elem.
cond_priority_higher(a, b) == a.priority > b.priority

\* list_insert_ordered (&cond->waiters, &waiter.elem, cond_priority_higher).
RECURSIVE cond_insert_ordered(_, _)
cond_insert_ordered(list, e) ==
  IF list = <<>> THEN <<e>>
  ELSE IF cond_priority_higher(e, Head(list)) THEN <<e>> \o list
  ELSE <<Head(list)>> \o cond_insert_ordered(Tail(list), e)

CondThreads == {cond_waiters[i].thread : i \in 1..Len(cond_waiters)}

\* cond_wait, lines 406-413: the ASSERTs, sema_init (&waiter.semaphore, 0) and
\* the copy of the caller's priority into waiter.priority.
cond_wait_init(t, lock) ==
  /\ value' = [value EXCEPT ![WaiterSema(t)] = 0]
  /\ waiters' = [waiters EXCEPT ![WaiterSema(t)] = <<>>]
  /\ local' = [local EXCEPT ![t].lock = lock, ![t].in_wait = TRUE,
                            ![t].wp = priority[t]]
  /\ pc' = [pc EXCEPT ![t] = "cw_insert"]
  /\ UNCHANGED <<threadVars, schedVars, holder, cond_waiters, intr_off, panicked,
                 histVars>>

cond_wait(t, lock) ==
  /\ Begin(t, <<"cond_wait", lock>>)
  /\ IF ~lock_held_by_current_thread(t, lock) THEN Panic(t)
     ELSE cond_wait_init(t, lock)

\* cond_wait, line 414; lock_release (lock) of line 415 follows.
cond_wait_insert(t) ==
  /\ Running(t) /\ pc[t] = "cw_insert"
  /\ cond_waiters' =
       cond_insert_ordered(cond_waiters, [thread |-> t, priority |-> local[t].wp])
  /\ pc' = [pc EXCEPT ![t] = "cw_release"]
  /\ UNCHANGED <<threadVars, schedVars, semaVars, holder, local, intr_off, panicked,
                 restVars>>

\* cond_wait, line 416; lock_acquire (lock) of line 417 follows.
cond_wait_down(t) ==
  /\ Running(t) /\ pc[t] = "cw_down"
  /\ sema_down_body(t, WaiterSema(t), "cw_down", "cw_acquire")
  /\ UNCHANGED <<priority, original_priority, wait_lock, locks, holder, cond_waiters,
                 local, panicked, permits, ops, workload>>

\* Return from cond_signal: to the caller, or to the loop of cond_broadcast.
AfterSignal(t) == [pc EXCEPT ![t] = IF local[t].in_bcast THEN "cb_loop" ELSE "idle"]

\* cond_signal, lines 435-437: the test and list_pop_front (&cond->waiters).
cond_signal_pop(t, lock) ==
  IF cond_waiters # <<>>
  THEN /\ cond_waiters' = Tail(cond_waiters)
       /\ local' = [local EXCEPT ![t].sema = WaiterSema(Head(cond_waiters).thread)]
       /\ pc' = [pc EXCEPT ![t] = "cs_up"]
       /\ UNCHANGED <<threadVars, schedVars, semaVars, holder, intr_off, panicked,
                      histVars>>
  ELSE /\ pc' = AfterSignal(t)
       /\ UNCHANGED <<threadVars, schedVars, semaVars, holder, cond_waiters, local,
                      intr_off, panicked, histVars>>

cond_signal(t, lock) ==
  /\ \/ Begin(t, <<"cond_signal", lock>>)
     \/ Running(t) /\ pc[t] = "cb_signal" /\ local[t].lock = lock /\ UNCHANGED ops
  /\ IF ~lock_held_by_current_thread(t, lock)
     THEN Panic(t)
     ELSE cond_signal_pop(t, lock)

\* cond_signal that takes the waiter off the list and never ups its semaphore.
cond_signal_forget(t) ==
  /\ Running(t) /\ pc[t] = "cs_up"
  /\ pc' = AfterSignal(t)
  /\ local' = [local EXCEPT ![t].sema = NoSema]
  /\ UNCHANGED <<threadVars, schedVars, semaVars, holder, cond_waiters, intr_off,
                 panicked, restVars>>

\* cond_signal, line 436: sema_up of the semaphore taken off the list.
cond_signal_up(t) ==
  /\ Running(t) /\ pc[t] = "cs_up"
  /\ sema_up_body(t, local[t].sema)
  /\ pc' = AfterSignal(t)
  /\ local' = [local EXCEPT ![t].sema = NoSema]
  /\ UNCHANGED <<priority, original_priority, wait_lock, locks, holder, cond_waiters,
                 intr_off, panicked, downs, arrivals, ops, workload>>

\* cond_broadcast, lines 449-450: the ASSERTs, which hold for every call.
cond_broadcast(t, lock) ==
  /\ Begin(t, <<"cond_broadcast", lock>>)
  /\ local' = [local EXCEPT ![t].lock = lock, ![t].in_bcast = TRUE,
                            ![t].bset = CondThreads]
  /\ pc' = [pc EXCEPT ![t] = "cb_loop"]
  /\ UNCHANGED <<threadVars, schedVars, semaVars, holder, cond_waiters, intr_off,
                 panicked, histVars>>

\* cond_broadcast, lines 452-453: the test of the loop.
cond_broadcast_loop(t) ==
  /\ Running(t) /\ pc[t] = "cb_loop"
  /\ IF cond_waiters # <<>>
     THEN pc' = [pc EXCEPT ![t] = "cb_signal"] /\ UNCHANGED local
     ELSE pc' = [pc EXCEPT ![t] = "idle"] /\ local' = [local EXCEPT ![t] = NoLocal]
  /\ UNCHANGED <<threadVars, schedVars, semaVars, holder, cond_waiters, intr_off,
                 panicked, restVars>>

CondNext ==
  \/ Tick
  \/ \E t \in Threads : Wake(t)
  \/ \E t \in Threads : Finish(t)
  \/ \E t \in Threads, l \in Locks : lock_acquire(t, l)
  \/ \E t \in Threads : donate_nested_test(t)
  \/ \E t \in Threads : donate_nested_save(t)
  \/ \E t \in Threads : donate_nested_raise(t)
  \/ \E t \in Threads : donate_nested_resort(t)
  \/ \E t \in Threads : donate_nested_recurse(t)
  \/ \E t \in Threads : lock_acquire_wait_lock(t)
  \/ \E t \in Threads : lock_acquire_down(t)
  \/ \E t \in Threads : lock_acquire_holder(t)
  \/ \E t \in Threads : lock_acquire_push(t)
  \/ \E t \in Threads, l \in Locks : lock_release(t, l)
  \/ \E t \in Threads : lock_release_clear(t)
  \/ \E t \in Threads : update_thread_priority_test(t)
  \/ \E t \in Threads : update_thread_priority_compute(t)
  \/ \E t \in Threads : update_thread_priority_write(t)
  \/ \E t \in Threads : lock_release_up(t)
  \/ \E t \in Threads, l \in Locks : cond_wait(t, l)
  \/ \E t \in Threads : cond_wait_insert(t)
  \/ \E t \in Threads : cond_wait_down(t)
  \/ \E t \in Threads, l \in Locks : cond_signal(t, l)
  \/ \E t \in Threads : cond_signal_up(t)
  \/ \E t \in Threads, l \in Locks : cond_broadcast(t, l)
  \/ \E t \in Threads : cond_broadcast_loop(t)

CondInit ==
  /\ TypeInit
  /\ workload \in {"monitor", "condvar"}
  /\ priority \in Priorities(workload)
  /\ value = InitValue(0) /\ permits = InitValue(0)

SpecCond == CondInit /\ [][CondNext]_vars

\* ================================================================== claims
Owns(t, l) == InSeq(locks[t], l)
Blocked(t, s) == InSeq(waiters[s], t)

\* C1: mutual exclusion. At most one thread is between its return from
\* lock_acquire (l) or a successful lock_try_acquire (l) and its lock_release (l),
\* and that thread is the one the lock names as holder.
C1_MutualExclusion ==
  \A l \in Locks : \A t1, t2 \in Threads :
    Owns(t1, l) /\ Owns(t2, l) => t1 = t2 /\ holder[l] = t1

\* C1 witness: one thread owns a lock while another is blocked acquiring it.
C1_Witness ==
  \E l \in Locks : \E t1, t2 \in Threads :
    t1 # t2 /\ Owns(t1, l) /\ Blocked(t2, LockSema(l))

\* C2: the counter of a semaphore initialised to v never goes below 0, and the
\* completed downs never exceed v plus the sema_up calls made so far.
C2_SemaCounter ==
  LET s == TheSema
  IN value[s] >= 0 /\ downs[s] <= permits[s] /\ value[s] = permits[s] - downs[s]

\* C2 witness: every permit handed out so far is consumed and a thread waits.
C2_Witness ==
  LET s == TheSema
  IN permits[s] > 0 /\ downs[s] = permits[s] /\ waiters[s] # <<>>

\* C3: donation invariant. A thread blocked on the wait list of a lock's
\* semaphore never has a higher priority than the lock's holder.
C3_DonationInvariant ==
  \A l \in Locks : \A a \in Threads :
    Blocked(a, LockSema(l)) /\ holder[l] # NULL => priority[holder[l]] >= priority[a]

\* The highest priority among the threads blocked on the locks t holds, or
\* NoPriority when nobody is blocked on any of them.
MaxBlockedOn(t) ==
  LET ps == {priority[u] : u \in {u \in Threads : \E i \in 1..Len(locks[t]) :
                                       Blocked(u, LockSema(locks[t][i]))}}
  IN IF ps = {} THEN NoPriority ELSE CHOOSE p \in ps : \A q \in ps : q <= p

\* C4: nested donation. With a blocked on l1 of b and b blocked on l2 of c, both
\* owners of the chain have at least a's priority.
C4_NestedDonation ==
  \A a \in Threads : \A l1, l2 \in Locks :
    LET b == holder[l1]
        c == holder[l2]
    IN Blocked(a, LockSema(l1)) /\ b # NULL /\ Blocked(b, LockSema(l2)) /\ c # NULL
         => priority[b] >= priority[a] /\ priority[c] >= priority[a]

\* C5: priority restoration. When lock_release has recomputed the priority of a
\* thread with an active donation, the priority is the larger of the base
\* priority and the highest priority blocked on a lock the thread still holds,
\* and the base priority is cleared exactly when it is the larger.
C5_Restored(t) ==
  IF original_priority[t] # NoPriority
  THEN priority[t] = MaxBlockedOn(t) /\ MaxBlockedOn(t) > original_priority[t]
  ELSE MaxBlockedOn(t) <= priority[t]

C5_PriorityRestoration ==
  [][\A t \in Threads : pc[t] = "utp_write" /\ pc'[t] = "lr_up" => C5_Restored(t)']_vars

\* C6: sema_up wakes a waiter of the highest priority: the thread taken from a
\* wait list has at least the priority of every thread that stays on it.
C6_WakeHighest ==
  [][\A s \in AllSemas :
       Len(waiters'[s]) < Len(waiters[s]) =>
         \A i \in 2..Len(waiters[s]) :
            priority[Head(waiters[s])] >= priority[waiters[s][i]]]_vars

\* a stands in front of b in the sequence s.
Before(s, a, b) == \E i, j \in 1..Len(s) : i < j /\ s[i] = a /\ s[j] = b

\* C7 as claimed: a blocked thread is granted the semaphore only when no thread
\* of its priority that called sema_down before it is still waiting.
C7_FifoByArrival ==
  [][\A t \in Threads :
       pc[t] = "sema_down" /\ pc'[t] = "idle" =>
         \A u \in Threads \ {t} :
            InSeq(arrivals[TheSema], u) /\ priority[u] = priority[t]
              => Before(arrivals[TheSema], t, u)]_vars

\* C7 as amended: FIFO by insertion into the wait list. sema_down puts the
\* caller behind every waiter of at least its priority and in front of the
\* lower ones, whether it waits for the first time or again, leaving the
\* other waiters in their order; sema_up takes the front of the list.
C7_FifoByInsertion ==
  [][LET old == waiters[TheSema]
         new == waiters'[TheSema]
     IN /\ \A t \in Threads :
             ~InSeq(old, t) /\ InSeq(new, t) =>
               /\ SeqRemove(new, t) = old
               /\ \A u \in Threads \ {t} :
                    InSeq(old, u) =>
                      IF priority[u] >= priority[t] THEN Before(new, u, t)
                      ELSE Before(new, t, u)
        /\ Len(new) < Len(old) => new = Tail(old) /\ status'[Head(old)] # "BLOCKED"]_vars

\* C7 witness: two waiters of one priority queue in the opposite order of
\* their calls of sema_down, the earlier caller having queued again.
C7_Witness ==
  \E a, b \in Threads :
    /\ priority[a] = priority[b]
    /\ Before(waiters[TheSema], a, b)
    /\ Before(arrivals[TheSema], b, a)

\* C8: cond_signal wakes a waiter of the highest priority: the thread whose
\* semaphore_elem it takes off the list has, at that moment, at least the
\* priority of every thread that stays on the list.
C8_SignalHighest ==
  [][\A t \in Threads :
       pc[t] # "cs_up" /\ pc'[t] = "cs_up" =>
         \A i \in 2..Len(cond_waiters) :
            priority[cond_waiters[1].thread] >= priority[cond_waiters[i].thread]]_vars

\* The positions of cond_wait behind its sema_down.
Reacquiring ==
  {"cw_acquire", "donate", "donate_save", "donate_raise", "donate_resort",
   "donate_recurse", "la_wait_lock", "la_down", "la_holder", "la_push"}

\* After the step the thread u, taken off the condition's list, has been woken:
\* it is not blocked on its semaphore, and the semaphore holds the permit until
\* u's sema_down has returned.
Woken(u) ==
  /\ \A i \in 1..Len(cond_waiters') : cond_waiters'[i].thread # u
  /\ ~InSeq(waiters'[WaiterSema(u)], u)
  /\ status'[u] # "BLOCKED" \/ wait_semaphore'[u] # WaiterSema(u)
  /\ local'[u].in_wait /\ pc'[u] \notin Reacquiring => value'[WaiterSema(u)] = 1

Pending(s) ==
  value[s] > 0 /\ \E t \in Threads : pc[t] = "sema_down" /\ local[t].sema = s

AllDone == \A t \in Active(workload) : pc[t] = "done"

\* C10: no lost wake-up. A permit left by sema_up for a woken thread is
\* eventually consumed, and the ping-pong of sema_self_test and
\* sema_test_helper runs to completion and leaves both semaphores at 0.
C10_NoLostWakeup ==
  /\ \A s \in PingPongSemas : Pending(s) ~> (value[s] = 0)
  /\ <>(AllDone /\ \A s \in PingPongSemas : value[s] = 0 /\ waiters[s] = <<>>)

\* C10 witness: both threads are done, ten downs have returned on each
\* semaphore, and both semaphores are 0.
C10_Witness ==
  /\ AllDone
  /\ \A s \in PingPongSemas : value[s] = 0 /\ downs[s] = Iterations

\* The lock, semaphore and priority state.
lockState ==
  <<priority, original_priority, wait_semaphore, wait_lock, locks, status,
    ready_list, value, waiters, holder>>

\* C11: ownership preconditions are fatal errors. No thread gets past the
\* ASSERTs of lock_acquire or lock_try_acquire for a lock it holds, nor past
\* those of lock_release for a lock it does not hold, and the step on which the
\* kernel halts changes no lock, semaphore or priority state.
C11_OwnershipAsserts ==
  [][/\ \A t \in Threads :
          /\ pc[t] = "idle" /\ pc'[t] \in {"donate", "lt_holder"}
               => holder[local'[t].lock] # t
          /\ pc[t] = "idle" /\ pc'[t] = "lr_clear"
               => holder[local'[t].lock] = t /\ Owns(t, local'[t].lock)
     /\ ~panicked /\ panicked' => lockState' = lockState]_vars

\* C11 witness: the kernel has halted in an ASSERT of a lock operation called
\* by a thread that holds no lock at all (a release without an acquire).
C11_Witness ==
  /\ panicked
  /\ \E t \in Threads :
       /\ status[t] = "RUNNING" /\ pc[t] = "idle" /\ locks[t] = <<>>
       /\ \A l \in Locks : holder[l] # t

\* C12: cond_signal and cond_broadcast by a thread that does not hold the lock
\* halt the kernel, with or without waiters: cond_signal takes no waiter off
\* the list, and cond_broadcast does not return, for such a caller.
C12_SignalNeedsLock ==
  [][\A t \in Threads :
       /\ pc[t] = "idle" /\ pc'[t] = "cs_up" => holder[CondLock] = t
       /\ local[t].in_bcast /\ ~local'[t].in_bcast => holder[local[t].lock] = t]_vars

\* C13: the non-blocking attempts. A step of lock_try_acquire leaves the caller
\* running and on no wait list and changes no wait list, priority, base
\* priority or wait_lock; it goes on only when sema_try_down found a value
\* above 0 and decremented it, and then records the caller as holder and
\* appends the lock to the caller's locks, as lock_acquire does.
C13_TryFrame ==
  [][\A t \in Threads :
       LET l == local'[t].lock
           taken == pc[t] = "idle" /\ pc'[t] \in {"lt_down", "lt_holder"}
           owner == pc[t] = "lt_holder" /\ pc'[t] = "lt_push"
           push == pc[t] = "lt_push" /\ pc'[t] = "idle"
       IN /\ taken \/ owner \/ push =>
               /\ status'[t] = "RUNNING"
               /\ \A s \in AllSemas : ~InSeq(waiters'[s], t)
               /\ waiters' = waiters /\ wait_semaphore' = wait_semaphore
               /\ priority' = priority /\ original_priority' = original_priority
               /\ wait_lock' = wait_lock
          /\ taken => /\ value[LockSema(l)] > 0
                      /\ value' = [value EXCEPT ![LockSema(l)] = @ - 1]
                      /\ holder' = holder /\ locks' = locks
          /\ owner => /\ holder' = [holder EXCEPT ![local[t].lock] = t]
                      /\ value' = value /\ locks' = locks
          /\ push => /\ locks' = [locks EXCEPT ![t] = Append(@, local[t].lock)]
                     /\ holder[local[t].lock] = t
                     /\ value' = value /\ holder' = holder]_vars

\* C13 witness: lock_try_acquire has taken a lock and recorded its caller as
\* holder while the other lock, held by the caller, has a waiter.
C13_Witness ==
  \E t \in Threads :
    /\ pc[t] = "lt_push" /\ holder[local[t].lock] = t
    /\ \E l \in Locks \ {local[t].lock} : Owns(t, l) /\ waiters[LockSema(l)] # <<>>

\* C14: lock representation invariant. Whenever a thread runs between two of
\* its operations, and so can observe any lock, a lock has no holder exactly
\* when the value of its semaphore is 1.
C14_LockRep ==
  (\E t \in Threads : Running(t) /\ pc[t] = "idle") =>
     \A l \in Locks : holder[l] = NULL <=> value[LockSema(l)] = 1

\* C15 as claimed: a semaphore with a value above 0 has an empty wait list, in
\* every state in which a thread runs between two of its operations.
C15_NoWaiterWithPermit ==
  (\E t \in Threads : Running(t) /\ pc[t] = "idle") =>
     (value[TheSema] > 0 => waiters[TheSema] = <<>>)

\* The threads sema_up has woken from s that have not yet tested value again.
Handed(s) ==
  {t \in Threads : /\ pc[t] = "sema_down" /\ local[t].sema = s
                   /\ status[t] # "BLOCKED" /\ ~InSeq(waiters[s], t)}

\* C15 as amended: while threads are queued on a semaphore, its value does not
\* exceed the number of threads that sema_up has woken from it and that have
\* not yet run to take the permit.
C15_PermitsHandedOver ==
  waiters[TheSema] # <<>> => value[TheSema] <= Cardinality(Handed(TheSema))

\* C15 witness: sema_up has left a permit for the waiter it woke while another
\* thread is still queued.
C15_Witness ==
  /\ \E t \in Threads : Running(t) /\ pc[t] = "idle"
  /\ value[TheSema] = 1 /\ waiters[TheSema] # <<>>
  /\ Cardinality(Handed(TheSema)) = 1

\* ------------------------------------------------------------------ C16
Sorted(list, pri) ==
  \A i, j \in 1..Len(list) : i < j => pri[list[i]] >= pri[list[j]]

\* C16: when donate_nested has raised a lock owner that is READY, the ready list
\* is sorted by priority when the donation step is over; and when a thread blocks
\* in lock_acquire, the thread that runs next has a priority no READY thread
\* exceeds.
C16_ReadyListOrder ==
  [][\A t \in Threads :
       /\ (/\ pc[t] = "donate_resort" /\ pc'[t] # "donate_resort"
           /\ status[local[t].h] = "READY")
            => Sorted(ready_list', priority')
       /\ (pc[t] = "la_down" /\ status[t] = "RUNNING" /\ status'[t] = "BLOCKED")
            => \A u, v \in Threads :
                 status'[u] = "RUNNING" /\ status'[v] = "READY"
                   => priority'[u] >= priority'[v]]_vars

\* ------------------------------------------------------------------ C17
\* Thread a is in lock_acquire (l), between recording wait_lock and the return
\* of sema_down.
Attempting(a, l) == pc[a] = "la_down" /\ local[a].lock = l

\* C17: donate_nested raises the holder of lock l to the priority of thread a
\* only if a is the caller of lock_acquire (l) or a is attempting to acquire l.
C17_DonationToBlockers ==
  [][\A t \in Threads :
       pc[t] = "donate_raise" /\ pc'[t] = "donate_resort"
         => \/ local[t].n = 0 /\ local[t].a = t /\ local[t].l = local[t].lock
            \/ Attempting(local[t].a, local[t].l)]_vars

\* ------------------------------------------------------------------ C18
\* The owners of the chain, and those a donation has raised.
ChainOwners == {i \in ChainLocks : holder[i] = i}
Raised ==
  {t \in ChainThreads :
     original_priority[t] # NoPriority /\ priority[t] > original_priority[t]}
DonationOver == pc[Donor] = "la_down" /\ status[Donor] = "BLOCKED"

\* C18: the donation of one lock_acquire never goes deeper than 8 and never
\* raises more than 8 threads; when it has raised the first owner, the first 8
\* owners of the chain have the donor's priority and the owners behind them
\* their own; and the donation comes to its end, the caller blocking on the lock.
C18_BoundedDonation ==
  /\ [](local[Donor].n <= MaxDonationDepth)
  /\ [](Cardinality(Raised) <= MaxDonationDepth)
  /\ [](DonationOver /\ 1 \in Raised
          => \A i \in ChainOwners :
               IF i <= MaxDonationDepth
               THEN priority[i] = priority[Donor]
               ELSE /\ original_priority[i] = NoPriority
                    /\ priority[i] = original_priority[1])
  /\ <>DonationOver

C18_Witness ==
  /\ DonationOver
  /\ Cardinality(ChainOwners) > MaxDonationDepth
  /\ Cardinality(Raised) = MaxDonationDepth
  /\ \E i \in ChainOwners : i > MaxDonationDepth /\ priority[i] < priority[Donor]

\* ------------------------------------------------------------------ C19
\* The positions between the first and the last step of lock_acquire and of
\* lock_release.
InsideLockOp ==
  {"donate", "donate_save", "donate_raise", "donate_resort", "donate_recurse",
   "la_wait_lock", "la_down", "la_holder", "la_push",
   "lr_clear", "utp_test", "utp_compute", "utp_write", "lr_up"}

\* C19: a thread between two steps of lock_acquire or lock_release is never
\* preempted: it leaves the CPU only by a step of its own.
C19_AtomicRegions ==
  [][\A t \in Threads :
       status[t] = "RUNNING" /\ pc[t] \in InsideLockOp /\ pc'[t] = pc[t]
         => status'[t] # "READY"]_vars

\* ------------------------------------------------------------------ C20
\* Every thread is between two operations, or blocked inside one.
AtBoundary ==
  \A t \in Threads : pc[t] \in {"idle", "asleep", "done"} \/ status[t] = "BLOCKED"

\* C20: at an operation boundary a thread with a recorded base priority owns a
\* lock and has a priority above that base; a recorded base priority is never
\* changed but by its clearing, which only the thread's own lock_release does.
C20_BasePriority ==
  /\ [](AtBoundary =>
          \A t \in Threads :
            original_priority[t] # NoPriority
              => locks[t] # <<>> /\ priority[t] > original_priority[t])
  /\ [][\A t \in Threads :
          original_priority[t] # NoPriority /\ original_priority'[t] # original_priority[t]
            => original_priority'[t] = NoPriority /\ pc[t] = "utp_compute"]_vars

====
